---- MODULE Spec2Model ----
(***************************************************************************)
(* momentli-pdf-merge: the incremental PDF merge service.                  *)
(*                                                                         *)
(* Three request handlers are modelled:                                    *)
(*   "merge_v1"          POST /merge of src/index.js (merge inlined)       *)
(*   "merge"             POST /merge of src/unnamed/part_000               *)
(*   "merge_and_upload"  POST /merge-and-upload of src/unnamed/part_000    *)
(*                                                                         *)
(* A run is one request being handled.  JavaScript runs a handler without  *)
(* interruption between two awaits, so every action below is the code from *)
(* one awaited collaborator call to the next: the action fires when the    *)
(* awaited call settles, runs the synchronous code that follows and issues *)
(* the next call.  run[r].pc names the awaited call run r is suspended in. *)
(* The object store and the FTP server are the only state shared by runs.  *)
(***************************************************************************)
EXTENDS Integers, Sequences, FiniteSets, TLC

\* ---------------------------------------------------------------- bounds
MaxBatches  == 3   \* longest storagePaths list of a request
MaxPages    == 3   \* most pages in one stored batch
MaxRequests == 2   \* times a caller sends its request (first try and retries)
NumRuns     == 2   \* run slots (requests that may be in flight together)

Runs == 1..NumRuns

\* ------------------------------------------------------------ JS values
Undefined == "undefined"
Truthy(v) == v \notin {Undefined, ""}

MERGE_API_SECRET == "s3cret"

BatchPaths == {"b1", "b2"}

\* A PDF file is a sequence of tokens: a header, one token per page, a
\* trailer.  A page is <<origin path, index in its batch>>.
PdfHeader  == <<"%PDF", 0>>
PdfTrailer == <<"%%EOF", 0>>
BatchPages(p, n) == [k \in 1..n |-> <<p, k>>]
CorruptBytes == << <<"junk", 0>> >>

\* mergedPdf.save(): the bytes of a document
Serialize(pages) == <<PdfHeader>> \o pages \o <<PdfTrailer>>

\* PDFDocument.load(buffer): does the buffer parse, and to which pages
Parses(bytes) ==
    /\ Len(bytes) >= 2
    /\ bytes[1] = PdfHeader
    /\ bytes[Len(bytes)] = PdfTrailer
ParsedPages(bytes) == SubSeq(bytes, 2, Len(bytes) - 1)

\* a parsed document variable: null, or a PDFDocument with its pages
NoDoc == [live |-> FALSE, pages |-> <<>>]
Doc(pages) == [live |-> TRUE, pages |-> pages]

\* mutant of CopyPages: the copied pages are inserted in front
CopyPagesPrepend(acc, src) == [live |-> TRUE, pages |-> src.pages \o acc.pages]

\* mergedPdf.copyPages(batchPdf, batchPdf.getPageIndices()) followed by
\* addPage for each copied page
CopyPages(acc, src) == Doc(acc.pages \o src.pages)

\* ------------------------------------------------------------- requests
PathsUndefined == [defined |-> FALSE, isArray |-> FALSE, items |-> <<>>]
PathsNotArray  == [defined |-> TRUE,  isArray |-> FALSE, items |-> <<>>]
PathsArray(s)  == [defined |-> TRUE,  isArray |-> TRUE,  items |-> s]

PathLists == UNION {[1..n -> BatchPaths] : n \in 0..MaxBatches}

FtpUndefined == [defined |-> FALSE, host |-> Undefined, user |-> Undefined,
                 password |-> Undefined]
FtpFull == [defined |-> TRUE, host |-> "ftp.print", user |-> "u",
            password |-> "p"]
FtpConfigs == {FtpUndefined, FtpFull,
               [FtpFull EXCEPT !.host = Undefined],
               [FtpFull EXCEPT !.user = ""],
               [FtpFull EXCEPT !.password = Undefined]}

Handlers == {"merge_v1", "merge", "merge_and_upload"}

Request(h, sec, sp, oid, fmt, cfg, xc, xf, pf) ==
    [handler |-> h, secret |-> sec, storagePaths |-> sp, orderId |-> oid,
     format |-> fmt, ftp |-> cfg, xmlContent |-> xc, xmlFilename |-> xf,
     pdfFilename |-> pf]

OrderIds == {"o1", "o2"}
Formats  == {"A4", "A5"}

\* The two /merge handlers read storagePaths, orderId and format only.
MergeRequests ==
    {Request(h, sec, sp, oid, fmt, FtpUndefined, Undefined, Undefined,
             Undefined) :
        h \in {"merge_v1", "merge"},
        sec \in {MERGE_API_SECRET},
        sp \in {PathsArray(s) : s \in PathLists},
        oid \in OrderIds, fmt \in Formats}

UploadRequests ==
    {Request("merge_and_upload", MERGE_API_SECRET, sp, "o1", "A4", FtpFull,
             xc, xf, "o1.pdf") :
        sp \in {PathsArray(s) : s \in PathLists},
        xc \in {Undefined, "<xml/>"}, xf \in {Undefined, "o1.xml"}}

\* Requests the boundary rejects: one field of a well-formed request broken.
BaseMerge(h) == Request(h, MERGE_API_SECRET, PathsArray(<<"b1", "b2">>),
                        "o1", "A4", FtpUndefined, Undefined, Undefined,
                        Undefined)
BaseUpload == Request("merge_and_upload", MERGE_API_SECRET,
                      PathsArray(<<"b1", "b2">>), "o1", "A4", FtpFull,
                      "<xml/>", "o1.xml", "o1.pdf")
BaseRequests == {BaseMerge("merge_v1"), BaseMerge("merge"), BaseUpload}

BadRequests ==
    UNION {
      {[q EXCEPT !.secret = sec] : sec \in {Undefined, "", "wrong"}}
      \cup {[q EXCEPT !.storagePaths = sp] :
               sp \in {PathsUndefined, PathsNotArray}}
      \cup (IF q.handler = "merge_and_upload"
            THEN {[q EXCEPT !.ftp = cfg] : cfg \in FtpConfigs}
                 \cup {[q EXCEPT !.pdfFilename = pf] : pf \in {Undefined, ""}}
            ELSE {})
      : q \in BaseRequests}

Requests == MergeRequests \cup UploadRequests \cup BadRequests


\* ---------------------------------------------------------------- state
\* run[r]: the request run r handles and the handler's locals
VARIABLE run
\* bucket "print-queue": object path -> bytes
VARIABLE store
\* files on the FTP server: remote filename -> content
VARIABLE ftpFiles

vars == <<run, store, ftpFiles>>

NoResp == [status |-> 0, error |-> "", storagePath |-> Undefined, size |-> 0,
           pages |-> 0, ftpUploaded |-> FALSE, pdfFilename |-> Undefined,
           xmlFilename |-> Undefined]

NoRequest == Request("merge", Undefined, PathsUndefined, Undefined, Undefined,
                     FtpUndefined, Undefined, Undefined, Undefined)

\* a run slot that handles no request
OffRun ==
    [pc |-> "off", req |-> NoRequest, n |-> 0, i |-> 0, buffer |-> <<>>,
     buffers |-> <<>>, failedAt |-> "",
     mergedPdf |-> NoDoc, batchPdf |-> <<>>, mergedBytes |-> <<>>,
     pageCount |-> 0, client |-> "none", xmlUploaded |-> FALSE,
     resp |-> NoResp, calls |-> <<>>, warnings |-> <<>>]

\* a run that has just received request q, its n-th
NewRun(q, n) == [OffRun EXCEPT !.pc = "start", !.req = q, !.n = n]

\* ------------------------------------------------- collaborator call log
\* run[r].calls is the sequence of collaborator calls the run has issued;
\* out is "pending" until the awaited call settles.
Issue(s, op, arg, idx) ==
    [s EXCEPT !.calls = Append(@, [op |-> op, arg |-> arg, idx |-> idx,
                                    out |-> "pending", fault |-> FALSE,
                                    existed |-> FALSE, data |-> <<>>])]
Settle(s, out, fault) ==
    [s EXCEPT !.calls[Len(s.calls)].out = out,
              !.calls[Len(s.calls)].fault = fault]

\* ------------------------------------------------------------ responses
\* res.status(code).json({ error }): the handler's locals die with it;
\* failedAt keeps the step the handler was at
Reject(s, code, msg) ==
    [s EXCEPT !.pc = "done", !.failedAt = s.pc, !.resp = [NoResp EXCEPT !.status = code,
                                                      !.error = msg],
              !.buffer = <<>>, !.mergedPdf = NoDoc, !.batchPdf = <<>>,
              !.buffers = <<>>]

\* the outer catch (err) of the three handlers
Catch500(s, msg) == Reject(s, 500, msg)

\* --------------------------------------------------------- the boundary
CheckAuth(secret) == ~(~Truthy(secret) \/ secret # MERGE_API_SECRET)

\* mutant of ValidPaths: the length of the list is not checked
ValidPathsAnyLength(sp) == ~(~sp.defined \/ ~sp.isArray)

ValidPaths(sp) ==
    ~(~sp.defined \/ ~sp.isArray \/ Len(sp.items) = 0)

\* mutant of ValidFtp: the password is not checked
ValidFtpNoPassword(cfg) ==
    ~(~cfg.defined \/ ~Truthy(cfg.host) \/ ~Truthy(cfg.user))

ValidFtp(cfg) ==
    ~(~cfg.defined \/ ~Truthy(cfg.host) \/ ~Truthy(cfg.user)
      \/ ~Truthy(cfg.password))

PathsRequiredMsg(h) ==
    IF h = "merge_v1"
    THEN "storagePaths is required and must be a non-empty array"
    ELSE "storagePaths is required"

\* storagePaths[j]: undefined beyond the end of the array
At(items, j) == IF j + 1 \in DOMAIN items THEN items[j + 1] ELSE Undefined

\* downloadBatch is called: the storage download of storagePaths[j] is issued
FetchBatch(s, j) ==
    [Issue(s, "download", <<At(s.req.storagePaths.items, j)>>, j)
        EXCEPT !.pc = "download", !.i = j]

\* from the arrival of the request to the first await
Begin(s) ==
    LET q == s.req IN
    IF ~CheckAuth(q.secret) THEN Reject(s, 401, "Unauthorized")
    ELSE IF ~ValidPaths(q.storagePaths)
         THEN Reject(s, 400, PathsRequiredMsg(q.handler))
    ELSE IF q.handler = "merge_and_upload" /\ ~ValidFtp(q.ftp)
         THEN Reject(s, 400, "ftp config (host, user, password) is required")
    ELSE IF q.handler = "merge_and_upload" /\ ~Truthy(q.pdfFilename)
         THEN Reject(s, 400, "pdfFilename is required")
    ELSE FetchBatch(s, 0)

\* ------------------------------------------------------------ the merge
\* mutant of LoopTest: the loop stops one batch early
LoopTestShort(s, j) ==
    IF j + 1 < Len(s.req.storagePaths.items)
    THEN FetchBatch(s, j)
    ELSE [s EXCEPT !.pc = "save"]

\* the for-loop header with i = j: fetch batch j, or leave the loop and
\* call mergedPdf.save()
LoopTest(s, j) ==
    IF j < Len(s.req.storagePaths.items)
    THEN FetchBatch(s, j)
    ELSE [s EXCEPT !.pc = "save"]

\* mutant of EndIteration: the parsed batch stays referenced after its
\* iteration
EndIterationKeeps(s) ==
    [s EXCEPT !.buffer = <<>>, !.buffers = SubSeq(@, 1, Len(@) - 1)]

\* the end of one loop iteration: batchBuffer and batchPdf leave scope;
\* firstBuffer, declared outside the loop, stays
EndIteration(s) ==
    [s EXCEPT !.batchPdf = <<>>, !.buffer = <<>>,
              !.buffers = SubSeq(@, 1, Len(@) - 1)]

DownloadFailedMsg(path, cause) ==
    "Failed to download " \o path \o ": " \o cause

\* mutant of Downloaded: a batch that cannot be downloaded is skipped
DownloadedSkipping(s, st, out) ==
    LET path == At(s.req.storagePaths.items, s.i) IN
    IF out = "throw" \/ out = "error" \/ path \notin DOMAIN st
    THEN LoopTest(Settle(s, IF out = "ok" THEN "error" ELSE out, out # "ok"),
                  s.i + 1)
    ELSE [Settle(s, "ok", FALSE) EXCEPT !.buffer = st[path], !.pc = "load",
                                        !.buffers = Append(@, st[path])]

\* mutant of Downloaded: a failed download is tried a second time
DownloadedRetryOnce(s, st, out) ==
    LET path == At(s.req.storagePaths.items, s.i) IN
    IF out = "ok" /\ path \in DOMAIN st
    THEN [Settle(s, "ok", FALSE) EXCEPT !.buffer = st[path], !.pc = "load",
                                        !.buffers = Append(@, st[path])]
    ELSE IF Len(s.calls) = s.i + 1
    THEN FetchBatch(Settle(s, IF out = "ok" THEN "error" ELSE out, TRUE), s.i)
    ELSE Catch500(Settle(s, IF out = "ok" THEN "error" ELSE out, TRUE),
                  "fetch failed")

\* downloadBatch after supabase.storage.download settled with outcome out
Downloaded(s, st, out) ==
    LET path == At(s.req.storagePaths.items, s.i) IN
    IF out = "throw" THEN Catch500(Settle(s, "throw", TRUE), "fetch failed")
    ELSE IF out = "error" \/ path \notin DOMAIN st
    THEN Catch500(Settle(s, "error", out = "error"),
                  DownloadFailedMsg(path, IF out = "error"
                                          THEN "fetch failed"
                                          ELSE "Object not found"))
    ELSE [Settle(s, "ok", FALSE) EXCEPT !.buffer = st[path], !.pc = "load",
                                        !.buffers = Append(@, st[path]),
                                        !.calls[Len(s.calls)].data = st[path]]

\* buffer.fill(0): the bytes are overwritten, the buffer itself stays
Zeroed(bytes) == [k \in DOMAIN bytes |-> <<"0", 0>>]

\* index.js zeroes the buffer right after the load; part_000 does not
AfterLoad(s) ==
    IF s.req.handler = "merge_v1"
    THEN [s EXCEPT !.buffers[Len(s.buffers)] = Zeroed(@)]
    ELSE s

\* PDFDocument.load(buffer) settled: batch 0 becomes the accumulator, a
\* later batch a transient document whose pages copyPages then copies
Loaded(s) ==
    IF ~Parses(s.buffer)
    THEN Catch500(s, "Failed to parse PDF document")
    ELSE IF s.i = 0
    THEN LoopTest([AfterLoad(s) EXCEPT
                      !.mergedPdf = Doc(ParsedPages(s.buffer))], 1)
    ELSE [AfterLoad(s) EXCEPT
             !.batchPdf = Append(@, Doc(ParsedPages(s.buffer))),
             !.pc = "copy"]

\* copyPages settled: the pages are added, the iteration ends, i++
Copied(s) ==
    LoopTest(EndIteration([s EXCEPT !.mergedPdf =
                              CopyPages(@, s.batchPdf[Len(s.batchPdf)])]),
             s.i + 1)

\* ---------------------------------------------------------- the delivery
OutputPath(orderId, format) ==
    "temp/" \o orderId \o "/merged_" \o format \o ".pdf"

\* mutant of Upsert: the upload does not ask for overwrite
UpsertOff == FALSE

\* the upsert option of the storage upload
Upsert == TRUE

UploadFailedMsg(h, cause) ==
    IF h = "merge_v1" THEN "Failed to upload merged PDF: " \o cause
    ELSE "Upload failed: " \o cause

\* after mergeBatches returned: start the delivery of the artifact
Deliver(s) ==
    IF s.req.handler = "merge_and_upload"
    THEN [Issue(s, "access", <<s.req.ftp.host>>, 0)
            EXCEPT !.pc = "access", !.client = "open"]
    ELSE [Issue(s, "upload", <<OutputPath(s.req.orderId, s.req.format)>>, 0)
            EXCEPT !.pc = "upload"]

\* mutant of Saved: a failed save still hands an artifact to the delivery
SavedUnchecked(s, out) == Deliver([s EXCEPT !.mergedPdf = NoDoc])

\* mergedPdf.save() settled
Saved(s, out) ==
    IF out = "throw" THEN Catch500(s, "Failed to serialize PDF document")
    ELSE Deliver([s EXCEPT !.mergedBytes = Serialize(s.mergedPdf.pages),
                           !.pageCount = Len(s.mergedPdf.pages),
                           !.mergedPdf = NoDoc, !.buffer = <<>>,
                           !.buffers = IF s.req.handler = "merge_v1"
                                       THEN @ ELSE <<>>])

\* the storage collaborator's upload: would it accept a write to path
StorageAccepts(st, path, upsert) == path \notin DOMAIN st \/ upsert

Put(f, k, v) == [x \in DOMAIN f \cup {k} |-> IF x = k THEN v ELSE f[x]]

\* the outcome of the storage upload as the handler sees it
UploadOutcome(st, path, out) ==
    IF out = "ok" /\ ~StorageAccepts(st, path, Upsert) THEN "error" ELSE out

\* mutant of Uploaded: the returned uploadError is not looked at
UploadedUnchecked(s, st, out) ==
    LET path == OutputPath(s.req.orderId, s.req.format)
        eff  == UploadOutcome(st, path, out)
        t    == [Settle(s, eff, out # "ok") EXCEPT
                    !.calls[Len(s.calls)].existed = path \in DOMAIN st]
    IN
    IF eff = "throw" THEN Catch500(t, "fetch failed")
    ELSE [t EXCEPT
            !.pc = "done", !.buffers = <<>>,
            !.resp = [NoResp EXCEPT !.status = 200, !.storagePath = path,
                                    !.size = Len(s.mergedBytes),
                                    !.pages = s.pageCount]]

\* /merge after supabase.storage.upload settled; out is what the transport
\* did, the call log keeps whether the destination existed already
Uploaded(s, st, out) ==
    LET path == OutputPath(s.req.orderId, s.req.format)
        eff  == UploadOutcome(st, path, out)
        t    == [Settle(s, eff, out # "ok") EXCEPT
                    !.calls[Len(s.calls)].existed = path \in DOMAIN st]
    IN
    IF eff = "throw" THEN Catch500(t, "fetch failed")
    ELSE IF eff = "error"
    THEN Catch500(t, UploadFailedMsg(s.req.handler,
                                     IF out = "error" THEN "fetch failed"
                                     ELSE "The resource already exists"))
    ELSE [t EXCEPT
            !.pc = "done", !.buffers = <<>>,
            !.resp = [NoResp EXCEPT !.status = 200, !.storagePath = path,
                                    !.size = Len(s.mergedBytes),
                                    !.pages = s.pageCount]]

\* mutant of FtpComplete: the success response is sent without the cleanup
FtpCompleteNoCleanup(s) ==
    [s EXCEPT !.client = "closed", !.pc = "done",
              !.resp = [NoResp EXCEPT
                          !.status = 200, !.size = Len(s.mergedBytes),
                          !.pages = s.pageCount, !.ftpUploaded = TRUE,
                          !.pdfFilename = s.req.pdfFilename,
                          !.xmlFilename = IF s.xmlUploaded
                                          THEN s.req.xmlFilename ELSE "null"]]

\* both transfers done: client.close(), then step 3 issues the cleanup
FtpComplete(s) ==
    [Issue([s EXCEPT !.client = "closed"], "remove",
           s.req.storagePaths.items, 0)
       EXCEPT !.pc = "remove"]

\* mutant of FtpCatch: the FTP error is swallowed and the handler carries on
\* with the cleanup
FtpCatchSwallowed(s, cause) == FtpComplete(s)

\* mutant of FtpCatch: the session is not closed on the error path
FtpCatchNoClose(s, cause) == Catch500(s, "FTP upload failed: " \o cause)

\* the inner catch (ftpErr): close the session and rethrow to the outer catch
FtpCatch(s, cause) ==
    Catch500([s EXCEPT !.client = "closed"], "FTP upload failed: " \o cause)

\* client.access settled: the primary upload is issued
Accessed(s, out) ==
    IF out = "throw" THEN FtpCatch(Settle(s, out, TRUE), "530 Login incorrect")
    ELSE [Issue(Settle(s, out, FALSE), "uploadPdf", <<s.req.pdfFilename>>, 0)
            EXCEPT !.pc = "uploadPdf"]

\* is the sidecar uploaded: if (xmlContent && xmlFilename)
WantsXml(q) == Truthy(q.xmlContent) /\ Truthy(q.xmlFilename)

\* client.uploadFrom(pdf) settled
PdfUploaded(s, out) ==
    IF out = "throw" THEN FtpCatch(Settle(s, out, TRUE), "550 Transfer failed")
    ELSE IF WantsXml(s.req)
    THEN [Issue(Settle(s, out, FALSE), "uploadXml", <<s.req.xmlFilename>>, 0)
            EXCEPT !.pc = "uploadXml"]
    ELSE FtpComplete(Settle(s, out, FALSE))

\* client.uploadFrom(xml) settled
XmlUploaded(s, out) ==
    IF out = "throw" THEN FtpCatch(Settle(s, out, TRUE), "550 Transfer failed")
    ELSE FtpComplete([Settle(s, out, FALSE) EXCEPT !.xmlUploaded = TRUE])

\* mutant of Removed: a throwing remove is not caught by an inner try
RemovedUncaught(s, out) ==
    IF out = "throw"
    THEN FtpCatch(Settle(s, out, TRUE), "fetch failed")
    ELSE [Settle(s, out, out # "ok") EXCEPT
            !.pc = "done",
            !.resp = [NoResp EXCEPT
                        !.status = 200, !.size = Len(s.mergedBytes),
                        !.pages = s.pageCount, !.ftpUploaded = TRUE,
                        !.pdfFilename = s.req.pdfFilename,
                        !.xmlFilename = IF s.xmlUploaded
                                        THEN s.req.xmlFilename ELSE "null"]]

\* supabase.storage.remove settled: a throw is caught and warned about, a
\* returned error is not looked at; the success response follows
Removed(s, out) ==
    [Settle(s, out, out # "ok") EXCEPT
        !.pc = "done",
        !.warnings = IF out = "throw" THEN Append(@, "fetch failed") ELSE @,
        !.resp = [NoResp EXCEPT
                    !.status = 200, !.size = Len(s.mergedBytes),
                    !.pages = s.pageCount, !.ftpUploaded = TRUE,
                    !.pdfFilename = s.req.pdfFilename,
                    !.xmlFilename = IF s.xmlUploaded THEN s.req.xmlFilename
                                    ELSE "null"]]

\* the storage collaborator's remove
Without(f, ks) == [x \in DOMAIN f \ ks |-> f[x]]
Range(q) == {q[k] : k \in DOMAIN q}

\* --------------------------------------------------------------- actions
Outcomes == {"ok", "error", "throw"}

\* mutant of SetRun: the accumulator is one variable shared by all requests
SetRunShared(r, s) ==
    run' = [x \in Runs |-> IF x = r THEN s
                           ELSE [run[x] EXCEPT !.mergedPdf = s.mergedPdf]]

SetRun(r, s) == run' = [run EXCEPT ![r] = s]

Start(r) ==
    /\ run[r].pc = "start"
    /\ SetRun(r, Begin(run[r]))
    /\ UNCHANGED <<store, ftpFiles>>

Download(r) ==
    /\ run[r].pc = "download"
    /\ \E out \in Outcomes : SetRun(r, Downloaded(run[r], store, out))
    /\ UNCHANGED <<store, ftpFiles>>

Load(r) ==
    /\ run[r].pc = "load"
    /\ SetRun(r, Loaded(run[r]))
    /\ UNCHANGED <<store, ftpFiles>>

Copy(r) ==
    /\ run[r].pc = "copy"
    /\ SetRun(r, Copied(run[r]))
    /\ UNCHANGED <<store, ftpFiles>>

Save(r) ==
    /\ run[r].pc = "save"
    /\ \E out \in {"ok", "throw"} : SetRun(r, Saved(run[r], out))
    /\ UNCHANGED <<store, ftpFiles>>

Upload(r) ==
    /\ run[r].pc = "upload"
    /\ \E out \in Outcomes :
         LET s == run[r]
             t == Uploaded(s, store, out)
         IN /\ SetRun(r, t)
            /\ store' = IF t.calls[Len(t.calls)].out = "ok"
                        THEN Put(store, t.calls[Len(t.calls)].arg[1],
                                 s.mergedBytes)
                        ELSE store
    /\ UNCHANGED ftpFiles

Access(r) ==
    /\ run[r].pc = "access"
    /\ \E out \in {"ok", "throw"} : SetRun(r, Accessed(run[r], out))
    /\ UNCHANGED <<store, ftpFiles>>

UploadPdf(r) ==
    /\ run[r].pc = "uploadPdf"
    /\ \E out \in {"ok", "throw"} :
         /\ SetRun(r, PdfUploaded(run[r], out))
         /\ ftpFiles' = IF out = "ok"
                        THEN Put(ftpFiles, run[r].req.pdfFilename,
                                 run[r].mergedBytes)
                        ELSE ftpFiles
    /\ UNCHANGED store

UploadXml(r) ==
    /\ run[r].pc = "uploadXml"
    /\ \E out \in {"ok", "throw"} :
         /\ SetRun(r, XmlUploaded(run[r], out))
         /\ ftpFiles' = IF out = "ok"
                        THEN Put(ftpFiles, run[r].req.xmlFilename,
                                 << <<run[r].req.xmlContent, 0>> >>)
                        ELSE ftpFiles
    /\ UNCHANGED store

Remove(r) ==
    /\ run[r].pc = "remove"
    /\ \E out \in Outcomes :
         /\ SetRun(r, Removed(run[r], out))
         /\ store' = IF out = "ok"
                     THEN Without(store, Range(run[r].req.storagePaths.items))
                     ELSE store
    /\ UNCHANGED ftpFiles

\* the caller retries: the answered request is sent again
Retry(r) ==
    /\ run[r].pc = "done"
    /\ run[r].n < MaxRequests
    /\ SetRun(r, NewRun(run[r].req, run[r].n + 1))
    /\ UNCHANGED <<store, ftpFiles>>

\* ------------------------------------------------------- specification
BatchContents(p) ==
    {Serialize(BatchPages(p, n)) : n \in 1..MaxPages} \cup {CorruptBytes}

Stores ==
    UNION {{f \in [D -> UNION {BatchContents(p) : p \in D}] :
              \A p \in D : f[p] \in BatchContents(p)} : D \in SUBSET BatchPaths}

\* an artifact an earlier delivery of order o1 left in the bucket
StaleArtifact == Serialize(BatchPages("old", 1))
StalePath == "temp/o1/merged_A4.pdf"

Init ==
    /\ \E q \in Requests :
         run = [r \in Runs |-> IF r = 1 THEN NewRun(q, 1) ELSE OffRun]
    /\ \E st \in Stores :
         store \in {st, Put(st, StalePath, StaleArtifact)}
    /\ ftpFiles = <<>>

Next ==
    \E r \in Runs :
        \/ Start(r)
        \/ Download(r)
        \/ Load(r)
        \/ Copy(r)
        \/ Save(r)
        \/ Upload(r)
        \/ Access(r)
        \/ UploadPdf(r)
        \/ UploadXml(r)
        \/ Remove(r)
        \/ Retry(r)

Spec == Init /\ [][Next]_vars

\* two requests in flight together over a bucket holding two batches
PairRequests ==
    BaseRequests
    \cup {[BaseMerge("merge") EXCEPT !.storagePaths = PathsArray(<<"b2", "b1">>),
                                    !.orderId = "o2"]}

PairStores ==
    {[p \in BatchPaths |-> IF p = "b1" THEN Serialize(BatchPages(p, 2))
                           ELSE b2] :
        b2 \in {Serialize(BatchPages("b2", 1)), CorruptBytes}}

InitPair ==
    /\ \E q1, q2 \in PairRequests :
         run = [r \in Runs |-> IF r = 1 THEN NewRun(q1, 1)
                               ELSE IF r = 2 THEN NewRun(q2, 1) ELSE OffRun]
    /\ store \in PairStores
    /\ ftpFiles = <<>>

\* the steps of run r that wait for nothing but a collaborator's answer
RunStep(r) ==
    \/ Start(r)
    \/ Download(r)
    \/ Load(r)
    \/ Copy(r)
    \/ Save(r)
    \/ Upload(r)
    \/ Access(r)
    \/ UploadPdf(r)
    \/ UploadXml(r)
    \/ Remove(r)

\* every collaborator call eventually returns: a run that can step does
SpecLive == Init /\ [][Next]_vars /\ \A r \in Runs : WF_vars(RunStep(r))

\* two concurrent runs; the calls of run 2 settle, those of run 1 may hang
SpecPair == InitPair /\ [][Next]_vars /\ WF_vars(RunStep(2))

\* ------------------------------------------------- vocabulary of claims
Succeeded(s) == s.pc = "done" /\ s.resp.status = 200
Failed(s)    == s.pc = "done" /\ s.resp.status = 500
Rejected(s)  == s.pc = "done" /\ s.resp.status \in {400, 401}

\* positions in the call log of run s of the calls named op
CallsOf(s, op) == {k \in DOMAIN s.calls : s.calls[k].op = op}
OkCallsOf(s, op) == {k \in CallsOf(s, op) : s.calls[k].out = "ok"}

TransferOps == {"upload", "access", "uploadPdf", "uploadXml"}
DeliveryOps == TransferOps \cup {"remove"}

IsUploadRun(s) == s.req.handler = "merge_and_upload"
IsMergeRun(s)  == s.req.handler \in {"merge_v1", "merge"}

\* a batch object of the bucket is removed or replaced by this step
BatchesTouched ==
    \E p \in BatchPaths :
        /\ p \in DOMAIN store
        /\ (p \notin DOMAIN store' \/ store'[p] # store[p])

\* ------------------------------------------------------------------ C1
\* C1: cleanup only after a successful delivery.  In a merge-and-upload
\* run every storage remove call comes after a successful FTP connection,
\* a successful primary upload and, when a sidecar upload was issued, a
\* successful sidecar upload; a run that ends Failed has issued no remove;
\* and a step changes a batch object of the bucket only when it settles the
\* remove call of a run that then reports success.
C1_RemoveOnlyAfterTransfers ==
    \A r \in Runs :
        LET s == run[r] IN
        /\ \A k \in CallsOf(s, "remove") :
              /\ IsUploadRun(s)
              /\ \E a \in OkCallsOf(s, "access") : a < k
              /\ \E u \in OkCallsOf(s, "uploadPdf") : u < k
              /\ \A x \in CallsOf(s, "uploadXml") :
                    x < k /\ s.calls[x].out = "ok"
        /\ Failed(s) => CallsOf(s, "remove") = {}

C1_BatchesKept ==
    BatchesTouched =>
        \E r \in Runs : run[r].pc = "remove" /\ Succeeded(run'[r])

C1_CleanupOnlyAfterDelivery ==
    []C1_RemoveOnlyAfterTransfers /\ [][C1_BatchesKept]_vars

\* the sidecar scenario: primary uploaded, sidecar upload failed, the run
\* is Failed and its batches are still in the bucket
C1_Witness ==
    \E r \in Runs :
        LET s == run[r] IN
        /\ Failed(s) /\ IsUploadRun(s)
        /\ OkCallsOf(s, "uploadPdf") # {}
        /\ \E x \in CallsOf(s, "uploadXml") : s.calls[x].out = "throw"
        /\ Range(s.req.storagePaths.items) \subseteq DOMAIN store

\* ------------------------------------------------------------------ C2
\* C2: partial delivery never yields Succeeded.  A run in which a transfer
\* (storage upload, FTP connection, primary upload, sidecar upload) failed
\* is Failed, however many transfers completed before it; a Succeeded run
\* has completed its required transfers and none of its transfers failed.
C2_NoPartialSuccess ==
    \A r \in Runs :
        LET s == run[r] IN
        /\ (\E k \in DOMAIN s.calls :
               /\ s.calls[k].op \in TransferOps
               /\ s.calls[k].out \in {"error", "throw"}) => Failed(s)
        /\ Succeeded(s) =>
              /\ \A k \in DOMAIN s.calls :
                    s.calls[k].op \in TransferOps => s.calls[k].out = "ok"
              /\ IsUploadRun(s) => /\ OkCallsOf(s, "access") # {}
                                   /\ OkCallsOf(s, "uploadPdf") # {}
              /\ IsMergeRun(s) => OkCallsOf(s, "upload") # {}

\* the FTP connection succeeded, the primary upload failed, the run is Failed
C2_Witness ==
    \E r \in Runs :
        LET s == run[r] IN
        /\ Failed(s)
        /\ OkCallsOf(s, "access") # {}
        /\ \E k \in CallsOf(s, "uploadPdf") : s.calls[k].out = "throw"

\* ------------------------------------------------------------------ C3
RECURSIVE ConcatBatches(_, _)
\* the pages of the batches named by items, in list order
ConcatBatches(items, st) ==
    IF items = <<>> THEN <<>>
    ELSE ParsedPages(st[Head(items)]) \o ConcatBatches(Tail(items), st)

RECURSIVE SumPages(_, _)
\* the sum of the page counts of the batches named by items
SumPages(items, st) ==
    IF items = <<>> THEN 0
    ELSE Len(ParsedPages(st[Head(items)])) + SumPages(Tail(items), st)

\* C3: when every fetch and parse succeeded, the accumulator that is
\* serialized holds the pages of the batches in batch-list order, each
\* batch's pages in their own order; the page count returned by the merge
\* and reported in the response is the sum of the batches' page counts.
C3_PagesConcatenated ==
    \A r \in Runs :
        LET s == run[r]
            items == s.req.storagePaths.items
        IN
        /\ s.pc = "save" =>
              /\ s.mergedPdf.live
              /\ s.mergedPdf.pages = ConcatBatches(items, store)
        /\ s.pc \in {"upload", "access"} =>
              /\ s.pageCount = SumPages(items, store)
              /\ s.mergedBytes = Serialize(ConcatBatches(items, store))
        /\ Succeeded(s) => s.resp.pages = s.pageCount
        /\ Succeeded(s) /\ IsMergeRun(s) =>
              s.resp.pages = SumPages(items, store)

\* [A(3 pages), B(2 pages)]: 5 pages, A's then B's
C3_Witness ==
    \E r \in Runs :
        LET s == run[r] IN
        /\ s.pc = "save"
        /\ s.req.storagePaths.items = <<"b1", "b2">>
        /\ s.mergedPdf.pages = BatchPages("b1", 3) \o BatchPages("b2", 2)

\* ------------------------------------------------------------------ C4
\* parsed documents reachable from the run's variables
Resident(s) == (IF s.mergedPdf.live THEN 1 ELSE 0) + Len(s.batchPdf)

\* C4: at most two parsed documents are resident at any instant of a
\* merge, the accumulator and at most one transient document, and no
\* transient document is resident while a batch is being fetched.
C4_AtMostTwoDocuments ==
    \A r \in Runs :
        LET s == run[r] IN
        /\ Resident(s) <= 2
        /\ Len(s.batchPdf) <= 1
        /\ s.pc = "download" => s.batchPdf = <<>>

\* the third batch has been parsed: accumulator and one transient document
C4_Witness ==
    \E r \in Runs :
        LET s == run[r] IN
        s.pc = "copy" /\ s.i = 2 /\ Resident(s) = 2

\* ------------------------------------------------------------------ C5
\* C5: an empty batch list is rejected before any fetch.  A run whose
\* storagePaths is missing, not a list or empty, once it has left the start,
\* has been answered with a rejection and has issued no collaborator call.
C5_EmptyListRejected ==
    \A r \in Runs :
        LET s == run[r] IN
        (s.pc \notin {"off", "start"} /\ ~(/\ s.req.storagePaths.defined
                                           /\ s.req.storagePaths.isArray
                                           /\ s.req.storagePaths.items # <<>>))
            => Rejected(s) /\ s.calls = <<>>

\* an authorized merge-and-upload request with an empty list got a 400
C5_Witness ==
    \E r \in Runs :
        LET s == run[r] IN
        /\ IsUploadRun(s) /\ s.req.secret = MERGE_API_SECRET
        /\ s.req.storagePaths = PathsArray(<<>>)
        /\ s.pc = "done" /\ s.resp.status = 400 /\ s.calls = <<>>

\* ------------------------------------------------------------------ C6
\* C6: fail-fast merge.  A failed download is the last call the run
\* issues, so no later batch is fetched; downloads are issued in index
\* order; the run ends Failed with the error of that download (or of the
\* parse), and no artifact exists: nothing was serialized and the response
\* carries no size or page count.
C6_FailFast ==
    \A r \in Runs :
        LET s == run[r]
            last == s.calls[Len(s.calls)]
        IN
        /\ \A k \in CallsOf(s, "download") :
              /\ s.calls[k].idx = k - 1
              /\ s.calls[k].arg = <<s.req.storagePaths.items[k]>>
              /\ s.calls[k].out \in {"error", "throw"} =>
                    /\ k = Len(s.calls)
                    /\ Failed(s)
                    /\ s.resp.error \in
                          IF s.calls[k].out = "throw" THEN {"fetch failed"}
                          ELSE {DownloadFailedMsg(s.calls[k].arg[1], c) :
                                  c \in {"fetch failed", "Object not found"}}
        /\ (Failed(s) /\ s.resp.error = "Failed to parse PDF document") =>
              /\ last.op = "download" /\ last.out = "ok"
              /\ ~Parses(store[last.arg[1]])
        /\ (Failed(s) /\ last.op = "download") =>
              /\ s.mergedBytes = <<>>
              /\ s.resp.size = 0 /\ s.resp.pages = 0
              /\ \A k \in DOMAIN s.calls : s.calls[k].op = "download"

\* the download of the second of three batches failed
C6_Witness ==
    \E r \in Runs :
        LET s == run[r] IN
        /\ Len(s.req.storagePaths.items) = 3
        /\ Len(s.calls) = 2
        /\ s.calls[2].op = "download" /\ s.calls[2].out = "error"
        /\ Failed(s)

\* ------------------------------------------------------------------ C7
Phase(s) ==
    CASE s.pc \in {"off", "start"} -> "Idle"
      [] s.pc \in {"download", "load", "copy", "save"} -> "Merging"
      [] s.pc \in {"upload", "access", "uploadPdf", "uploadXml", "remove"}
            -> "Delivering"
      [] Succeeded(s) -> "Succeeded"
      [] Failed(s) -> "Failed"
      [] OTHER -> "Rejected"

PhaseSteps ==
    {<<"Idle", "Merging">>, <<"Idle", "Rejected">>,
     <<"Merging", "Merging">>, <<"Merging", "Delivering">>,
     <<"Merging", "Failed">>, <<"Delivering", "Delivering">>,
     <<"Delivering", "Succeeded">>, <<"Delivering", "Failed">>,
     <<"Succeeded", "Idle">>, <<"Failed", "Idle">>, <<"Rejected", "Idle">>}

\* a delivery call is issued only by a run that holds a serialized artifact
\* and fetches nothing afterwards; a run whose merge failed issued none
C7_NoDeliveryWithoutArtifact ==
    \A r \in Runs :
        LET s == run[r] IN
        /\ \A k \in DOMAIN s.calls :
              s.calls[k].op \in DeliveryOps =>
                  /\ Parses(s.mergedBytes)
                  /\ \A j \in DOMAIN s.calls :
                        s.calls[j].op = "download" =>
                            j < k /\ s.calls[j].out = "ok"
        /\ Phase(s) = "Delivering" => Parses(s.mergedBytes)
        /\ (Failed(s) /\ ~Parses(s.mergedBytes)) =>
              \A k \in DOMAIN s.calls : s.calls[k].op \notin DeliveryOps

C7_PhaseStep ==
    \A r \in Runs :
        run'[r] # run[r] => <<Phase(run[r]), Phase(run'[r])>> \in PhaseSteps

\* C7: a request goes Idle -> Merging -> Delivering -> {Succeeded, Failed};
\* a merging failure goes to Failed without entering Delivering (no upload,
\* FTP or cleanup call is issued), and no delivery call is issued before
\* the artifact has been serialized.
C7_MergeBeforeDelivery ==
    []C7_NoDeliveryWithoutArtifact /\ [][C7_PhaseStep]_vars

\* a merge-and-upload run whose save failed: Failed, only downloads issued
C7_Witness ==
    \E r \in Runs :
        LET s == run[r] IN
        /\ IsUploadRun(s) /\ Failed(s)
        /\ s.resp.error = "Failed to serialize PDF document"
        /\ s.calls # <<>>
        /\ \A k \in DOMAIN s.calls :
              s.calls[k].op = "download" /\ s.calls[k].out = "ok"

\* ------------------------------------------------------------------ C8
\* C8: a cleanup failure does not affect the reported outcome.  Once the
\* remove call has settled, with success, a returned error or a throw,
\* the run reports Succeeded with the artifact's size and page count and
\* the filenames delivered.
C8_CleanupFailureIgnored ==
    \A r \in Runs :
        LET s == run[r] IN
        \A k \in CallsOf(s, "remove") :
            s.calls[k].out # "pending" =>
                /\ Succeeded(s)
                /\ s.resp.ftpUploaded
                /\ s.resp.size = Len(s.mergedBytes)
                /\ s.resp.pages = s.pageCount
                /\ s.resp.pdfFilename = s.req.pdfFilename
                /\ s.resp.xmlFilename =
                      IF OkCallsOf(s, "uploadXml") # {}
                      THEN s.req.xmlFilename ELSE "null"

\* remove threw after both transfers; the run is Succeeded all the same
C8_Witness ==
    \E r \in Runs :
        LET s == run[r] IN
        /\ Succeeded(s)
        /\ OkCallsOf(s, "uploadXml") # {}
        /\ \E k \in CallsOf(s, "remove") : s.calls[k].out = "throw"
        /\ s.warnings # <<>>

\* ------------------------------------------------------------------ C9
\* C9 as stated: for either delivery target, every run that ends Succeeded
\* has invoked the storage remove call on the run's batch references.
C9_CleanupAfterEverySuccess ==
    \A r \in Runs :
        LET s == run[r] IN
        Succeeded(s) =>
            \E k \in CallsOf(s, "remove") :
                s.calls[k].arg = s.req.storagePaths.items

\* C9 amended: every merge-and-upload (FTP) run that ends Succeeded has
\* invoked the storage remove call on the run's batch references, as its
\* last call; a /merge (object storage) run never invokes remove.
C9_CleanupAfterFtpSuccess ==
    \A r \in Runs :
        LET s == run[r] IN
        /\ (Succeeded(s) /\ IsUploadRun(s)) =>
              /\ CallsOf(s, "remove") = {Len(s.calls)}
              /\ s.calls[Len(s.calls)].arg = s.req.storagePaths.items
        /\ IsMergeRun(s) => CallsOf(s, "remove") = {}

\* an FTP delivery succeeded and its cleanup removed the batches
C9_Witness ==
    \E r \in Runs :
        LET s == run[r] IN
        /\ Succeeded(s) /\ IsUploadRun(s)
        /\ OkCallsOf(s, "remove") # {}
        /\ Range(s.req.storagePaths.items) \cap DOMAIN store = {}

\* ----------------------------------------------------------------- C10
\* the destination paths written out for the order ids and formats used
ExpectedPath(orderId, format) ==
    CASE orderId = "o1" /\ format = "A4" -> "temp/o1/merged_A4.pdf"
      [] orderId = "o1" /\ format = "A5" -> "temp/o1/merged_A5.pdf"
      [] orderId = "o2" /\ format = "A4" -> "temp/o2/merged_A4.pdf"
      [] orderId = "o2" /\ format = "A5" -> "temp/o2/merged_A5.pdf"

\* C10: object-storage delivery is an idempotent overwrite.  The upload
\* goes to the path fixed by order id and format; unless the transport
\* fails it succeeds, also when the path exists already; a successful
\* delivery reports that path and leaves at it the artifact just written,
\* whose size and page count the response carries.
C10_IdempotentOverwrite ==
    \A r \in Runs :
        LET s == run[r] IN
        \A k \in CallsOf(s, "upload") :
            LET c == s.calls[k] IN
            /\ c.arg = <<ExpectedPath(s.req.orderId, s.req.format)>>
            /\ (c.out # "pending" /\ ~c.fault) => c.out = "ok"
            /\ c.out = "ok" =>
                  /\ Succeeded(s)
                  /\ s.resp.storagePath = c.arg[1]
                  /\ c.arg[1] \in DOMAIN store
                  /\ store[c.arg[1]] = s.mergedBytes
                  /\ s.resp.size = Len(store[c.arg[1]])
                  /\ s.resp.pages = Len(ParsedPages(store[c.arg[1]]))

\* the request was delivered again: the retry overwrote the existing object
C10_Witness ==
    \E r \in Runs :
        LET s == run[r] IN
        /\ s.n = 2 /\ Succeeded(s) /\ IsMergeRun(s)
        /\ \E k \in CallsOf(s, "upload") :
              s.calls[k].existed /\ s.calls[k].out = "ok"
        /\ store[s.resp.storagePath] = s.mergedBytes

\* ----------------------------------------------------------------- C11
\* raw batch buffers reachable from the run's variables
AliveBuffers(s) == Len(s.buffers)

\* C11: raw byte buffers of parsed batches are not retained.  At most one
\* raw batch buffer is alive at any instant of the merge, and when a batch
\* after the first is being fetched no buffer of an earlier batch, the
\* base batch included, is alive.
C11_BuffersNotRetained ==
    \A r \in Runs :
        LET s == run[r] IN
        /\ AliveBuffers(s) <= 1
        /\ s.pc = "download" => AliveBuffers(s) = 0

\* ----------------------------------------------------------------- C12
MergeDone(s) ==
    s.pc \in {"save", "upload", "access", "uploadPdf", "uploadXml", "remove"}
    \/ Succeeded(s)

\* C12: fetch, parse and append are strictly ordered.  The k-th call of a
\* run's merge is the download of batch k-1, at most one call is in flight,
\* a finished merge has fetched every batch exactly once; while batch i is
\* fetched, parsed or copied the accumulator holds exactly the pages of
\* batches 0..i-1; batch 0 is parsed into the accumulator, every later batch
\* into a transient document.
C12_StrictlySequential ==
    \A r \in Runs :
        LET s == run[r]
            items == s.req.storagePaths.items
        IN
        /\ \A k \in CallsOf(s, "download") :
              /\ k \in DOMAIN items
              /\ s.calls[k].idx = k - 1
              /\ s.calls[k].arg = <<items[k]>>
        /\ \A k \in DOMAIN s.calls :
              s.calls[k].out = "pending" => k = Len(s.calls)
        /\ MergeDone(s) => Cardinality(CallsOf(s, "download")) = Len(items)
        /\ (s.pc \in {"download", "load"} /\ s.i = 0) =>
              ~s.mergedPdf.live /\ s.batchPdf = <<>>
        /\ (s.pc \in {"download", "load", "copy"} /\ s.i >= 1) =>
              /\ s.mergedPdf.live
              /\ s.mergedPdf.pages = ConcatBatches(SubSeq(items, 1, s.i), store)
        /\ s.pc = "copy" =>
              /\ s.i >= 1
              /\ s.batchPdf = <<Doc(ParsedPages(store[items[s.i + 1]]))>>

\* the third batch is being fetched: the pages of the first two are appended
C12_Witness ==
    \E r \in Runs :
        LET s == run[r] IN
        /\ s.pc = "download" /\ s.i = 2
        /\ s.req.storagePaths.items = <<"b2", "b1", "b2">>
        /\ Len(s.mergedPdf.pages) >= 2
        /\ s.mergedPdf.pages[Len(s.mergedPdf.pages)][1] = "b1"

\* ----------------------------------------------------------------- C13
\* C13: the FTP session is torn down in every outcome.  The session is open
\* only while the connection or a transfer is awaited; a run that created
\* the client and has been answered has closed it, and it is closed before
\* the cleanup call is issued.
C13_SessionClosed ==
    \A r \in Runs :
        LET s == run[r] IN
        /\ s.client = "open" => s.pc \in {"access", "uploadPdf", "uploadXml"}
        /\ CallsOf(s, "access") # {} => s.client # "none"
        /\ (s.pc = "done" /\ CallsOf(s, "access") # {}) => s.client = "closed"
        /\ CallsOf(s, "remove") # {} => s.client = "closed"

\* the sidecar upload failed and the session was closed
C13_Witness ==
    \E r \in Runs :
        LET s == run[r] IN
        /\ Failed(s) /\ s.client = "closed"
        /\ \E k \in CallsOf(s, "uploadXml") : s.calls[k].out = "throw"

\* ----------------------------------------------------------------- C14
\* C14: supplied sidecar content is uploaded under its requested filename
\* as a second transfer, issued after the primary upload succeeded; every
\* Succeeded run whose request supplied sidecar content has uploaded the
\* sidecar; a run without sidecar content performs exactly one transfer.
C14_SidecarUploaded ==
    \A r \in Runs :
        LET s == run[r] IN
        /\ \A k \in CallsOf(s, "uploadXml") :
              /\ s.calls[k].arg = <<s.req.xmlFilename>>
              /\ k - 1 \in OkCallsOf(s, "uploadPdf")
        /\ (Succeeded(s) /\ IsUploadRun(s) /\ Truthy(s.req.xmlContent)) =>
              OkCallsOf(s, "uploadXml") # {}
        /\ (Succeeded(s) /\ IsUploadRun(s) /\ ~Truthy(s.req.xmlContent)) =>
              Cardinality(CallsOf(s, "uploadPdf")
                          \cup CallsOf(s, "uploadXml")) = 1

\* ----------------------------------------------------------------- C16
\* C16: whenever the remove call issued after a successful delivery fails,
\* by a returned error value or by a throw, a cleanup warning is recorded
\* for the run, and the run is not turned into a failure.
C16_CleanupWarningRecorded ==
    \A r \in Runs :
        LET s == run[r] IN
        \A k \in CallsOf(s, "remove") :
            s.calls[k].out \in {"error", "throw"} =>
                Succeeded(s) /\ s.warnings # <<>>

\* ----------------------------------------------------------------- C19
\* the request is one the boundary must turn away
BoundaryInvalid(q) ==
    \/ q.secret \in {Undefined, ""} \/ q.secret # MERGE_API_SECRET
    \/ /\ q.handler = "merge_and_upload"
       /\ \/ ~q.ftp.defined
          \/ q.ftp.host \in {Undefined, ""}
          \/ q.ftp.user \in {Undefined, ""}
          \/ q.ftp.password \in {Undefined, ""}
          \/ q.pdfFilename \in {Undefined, ""}

\* C19: a request rejected at the boundary causes no external effect.  A
\* run whose secret is missing or wrong, or whose merge-and-upload request
\* lacks the FTP host, user, password or the PDF filename, is answered with
\* 401 or 400 and has issued no storage or FTP call.
C19_BoundaryRejection ==
    \A r \in Runs :
        LET s == run[r] IN
        (s.pc \notin {"off", "start"} /\ BoundaryInvalid(s.req)) =>
            /\ Rejected(s)
            /\ s.calls = <<>>
            /\ s.client = "none"
            /\ s.resp.status = IF CheckAuth(s.req.secret) THEN 400 ELSE 401

\* a merge-and-upload request without FTP password got a 400 before any fetch
C19_Witness ==
    \E r \in Runs :
        LET s == run[r] IN
        /\ IsUploadRun(s) /\ s.req.secret = MERGE_API_SECRET
        /\ s.req.ftp.defined /\ s.req.ftp.password = Undefined
        /\ s.req.storagePaths.items # <<>>
        /\ s.pc = "done" /\ s.resp.status = 400 /\ s.calls = <<>>

\* ----------------------------------------------------------------- C18
\* no call is repeated within a run, and an accepted request that has been
\* answered is Succeeded or Failed
C18_NoRetries ==
    \A r \in Runs :
        LET s == run[r] IN
        /\ \A j, k \in CallsOf(s, "download") :
              s.calls[j].idx = s.calls[k].idx => j = k
        /\ \A op \in DeliveryOps : Cardinality(CallsOf(s, op)) <= 1
        /\ (s.pc = "done" /\ s.calls # <<>>) => Succeeded(s) \/ Failed(s)
        /\ Len(s.calls) <= Len(s.req.storagePaths.items) + 4

\* an answered run changes only when its caller sends the request again
C18_AnswerFinal ==
    \A r \in Runs :
        run[r].pc = "done" =>
            \/ run'[r] = run[r]
            \/ run'[r] = NewRun(run[r].req, run[r].n + 1)

\* C18: every started run terminates.  When every collaborator call
\* eventually returns, a run that has been started is eventually answered;
\* an accepted request ends Succeeded or Failed and its answer is final;
\* each batch is fetched at most once and each transfer and the cleanup are
\* attempted at most once per run.
C18_Terminates ==
    /\ \A r \in Runs : (run[r].pc \notin {"off", "done"}) ~> (run[r].pc = "done")
    /\ []C18_NoRetries
    /\ [][C18_AnswerFinal]_vars

\* three batches merged, both files transferred, cleanup done: seven calls
C18_Witness ==
    \E r \in Runs :
        LET s == run[r] IN
        /\ Succeeded(s) /\ IsUploadRun(s)
        /\ Len(s.req.storagePaths.items) = 3
        /\ Len(s.calls) = 7
        /\ \A k \in DOMAIN s.calls : s.calls[k].out = "ok"

\* ----------------------------------------------------------------- C15
\* the stage of the run a handler step belongs to
StageOf(pc) ==
    CASE pc = "download"  -> "fetch"
      [] pc = "load"      -> "parse"
      [] pc = "copy"      -> "parse"
      [] pc = "save"      -> "serialize"
      [] pc = "upload"    -> "upload primary"
      [] pc = "access"    -> "upload connect"
      [] pc = "uploadPdf" -> "upload primary"
      [] pc = "uploadXml" -> "upload sidecar"
      [] OTHER            -> "boundary"

\* C15: the failure reported for a run identifies the stage that failed.
\* Whatever two failed runs report, if they report the same failure then
\* they failed at the same stage: fetch, parse, serialize, or upload of
\* the primary artifact or of the sidecar.
C15_StageIdentified ==
    \A r1, r2 \in Runs :
        (/\ Failed(run[r1]) /\ Failed(run[r2])
         /\ run[r1].resp = run[r2].resp)
            => StageOf(run[r1].failedAt) = StageOf(run[r2].failedAt)

\* ----------------------------------------------------------------- C17
\* the bytes the run's own downloads returned, in call order
Fetched(s) ==
    [k \in 1..Cardinality(OkCallsOf(s, "download")) |-> s.calls[k].data]

RECURSIVE ConcatData(_)
\* the pages of a sequence of downloaded buffers
ConcatData(bufs) ==
    IF bufs = <<>> THEN <<>>
    ELSE ParsedPages(Head(bufs)) \o ConcatData(Tail(bufs))

\* what the run holds is what it alone makes of its own request and of
\* the answers its own calls got
C17_OwnResult ==
    \A r \in Runs :
        LET s == run[r]
            items == s.req.storagePaths.items
        IN
        /\ (s.mergedPdf.live /\ s.pc \in {"download", "load", "copy"}) =>
              s.mergedPdf.pages = ConcatData(SubSeq(Fetched(s), 1, s.i))
        /\ s.pc = "save" => s.mergedPdf.pages = ConcatData(Fetched(s))
        /\ (Phase(s) = "Delivering" \/ Succeeded(s)) =>
              /\ Len(Fetched(s)) = Len(items)
              /\ s.mergedBytes = Serialize(ConcatData(Fetched(s)))
              /\ s.pageCount = Len(ConcatData(Fetched(s)))
        /\ Succeeded(s) =>
              /\ \A k \in DOMAIN s.calls :
                    s.calls[k].op # "remove" => s.calls[k].out = "ok"
              /\ s.resp.size = Len(s.mergedBytes)
              /\ s.resp.pages = s.pageCount
        /\ Failed(s) =>
              \/ s.calls[Len(s.calls)].out \in {"error", "throw"}
              \/ s.failedAt = "load" /\ ~Parses(s.calls[Len(s.calls)].data)
              \/ s.failedAt = "save"

\* a step is the step of one run and leaves every other run as it is
C17_Isolated ==
    \A r1, r2 \in Runs :
        (run'[r1] # run[r1] /\ r2 # r1) => run'[r2] = run[r2]

====
